---- MODULE Spec2Model ----
(***************************************************************************)
(* A model of the obs-hang MoQ source: the host-facing lifecycle of        *)
(* hang-source.c (create/update/activate/deactivate/destroy/video_render), *)
(* the relay callbacks on_video/on_audio, the video decoder front end of   *)
(* vaapi-decoder.c (init/destroy/decode, store_decoded_frame) and the      *)
(* length-prefixed to start-code repacker.                                 *)
(*                                                                         *)
(* Three threads act on one struct hang_source: the host's lifecycle       *)
(* thread (lc), the host's render thread (rn) and a relay callback thread  *)
(* (cb).  Every action is one run of straight-line code between two points *)
(* at which another thread can observe or change shared state.             *)
(***************************************************************************)
EXTENDS Integers, Sequences, FiniteSets, TLC

(***************************************************************************)
(* Bounds of the model.                                                    *)
(***************************************************************************)
MaxUrlLen == 4       \* longest URL the lifecycle specification draws
MaxInputLen == 10    \* longest access unit handed to the repacker
MaxHandle == 2       \* relay session / subscription ids are 1..MaxHandle
MaxBuf == 2          \* RGBA buffers that can be live at once

(***************************************************************************)
(* Program constants.                                                      *)
(***************************************************************************)
NULL == 0                 \* a null pointer / an empty handle
QueueCap == 16            \* frame_queue_cap and audio_queue_cap
DefaultWidth == 1920      \* hang_source_get_width fallback
DefaultHeight == 1080     \* hang_source_get_height fallback
BytesPerPixel == 4        \* RGBA

\* A NULL char pointer (bzalloc'ed context->url before the first update).
\* Characters are one-letter strings, so no C string equals it.
NoString == <<"(null)">>

UrlChars == {"h", ":", "/"}
ByteVals == {0, 1, 2}

\* All sequences over S of length at most n.
SeqsUpTo(S, n) == UNION {[1..k -> S] : k \in 0..n}

\* The frame sizes the codec can hand back (avcodec_receive_frame).
VideoSizes == {<<640, 360>>, <<1920, 1080>>}

\* What a failed moq_session_connect / moq_subscribe_create returns.
FailIds == {-1, 0}
Handles == 1..MaxHandle

\* The smallest element of a non-empty set of numbers.
Min(S) == CHOOSE x \in S : \A y \in S : x <= y

\* The id a successful connect / subscribe returns, and the buffer a
\* successful allocation returns: the lowest one not in use.
FreshIds(inuse, all) == IF all \ inuse = {} THEN {} ELSE {Min(all \ inuse)}

(***************************************************************************)
(* C string helpers.                                                       *)
(***************************************************************************)
\* strstr(s, pat): the 1-based index of the first occurrence, 0 for NULL.
StrStr(s, pat) ==
  LET hits == {i \in 1..(Len(s) - Len(pat) + 1) :
                  SubSeq(s, i, i + Len(pat) - 1) = pat}
  IN IF hits = {} THEN 0 ELSE CHOOSE i \in hits : \A j \in hits : i <= j

SchemeSep == <<":", "/", "/">>

\* hang_source_activate's "Basic URL validation": TRUE when the code goes on
\* to connect.  strlen(host_start + 3) is what follows the first "://".
UrlPassesValidation(url) ==
  LET host_start == StrStr(url, SchemeSep)
  IN /\ host_start # 0
     /\ Len(url) - (host_start + 2) # 0

(***************************************************************************)
(* convert_mp4_nal_units_to_annex_b.  pos and out are the C offsets; the   *)
(* byte at C offset p is data[p + 1].  With bytes below 128 the shifts do  *)
(* not overflow, and pos + nal_length does not wrap a 64-bit size_t.       *)
(***************************************************************************)
ReadBE32(data, pos) ==
  data[pos + 1] * 16777216 + data[pos + 2] * 65536 + data[pos + 3] * 256 + data[pos + 4]

\* Variant: a three-byte start code.
StartCode_ThreeBytes == <<0, 0, 1>>

StartCode == <<0, 0, 0, 1>>

\* memcpy(buffer + out_pos, data + pos, n), line 315: the n bytes from C
\* offset pos on.  A byte at or beyond size is outside the input; what is
\* read there is not an input byte, and -1 stands for it.
ReadBytes(data, pos, n) ==
  [i \in 1..n |-> IF pos + i <= Len(data) THEN data[pos + i] ELSE -1]

\* Variant: the length test of line 291 lets a NAL end one byte past the
\* input.
RECURSIVE ConvertLoop_OffByOne(_, _, _)
ConvertLoop_OffByOne(data, pos, out) ==
  IF pos + 4 <= Len(data)
  THEN LET nal_length == ReadBE32(data, pos)
           p == pos + 4
       IN IF p + nal_length > Len(data) + 1
          THEN [ok |-> FALSE, out |-> <<>>, hi |-> p]
          ELSE ConvertLoop_OffByOne(data, p + nal_length,
                           out \o StartCode \o ReadBytes(data, p, nal_length))
  ELSE [ok |-> TRUE, out |-> out, hi |-> pos]

\* The loop of lines 286-318.  hi is the C offset one past the last input
\* byte read: the prefix ends at pos + 4, a copied NAL at pos + 4 +
\* nal_length, which is the next round's pos.
RECURSIVE ConvertLoop(_, _, _)
ConvertLoop(data, pos, out) ==
  IF pos + 4 <= Len(data)
  THEN LET nal_length == ReadBE32(data, pos)
           p == pos + 4
       IN IF p + nal_length > Len(data)
          THEN [ok |-> FALSE, out |-> <<>>, hi |-> p]
          ELSE ConvertLoop(data, p + nal_length,
                           out \o StartCode \o ReadBytes(data, p, nal_length))
  ELSE [ok |-> TRUE, out |-> out, hi |-> pos]

convert_mp4_nal_units_to_annex_b(data) == ConvertLoop(data, 0, <<>>)

(***************************************************************************)
(* State.                                                                  *)
(*   context      the fields of struct hang_source                         *)
(*   decoder      the struct vaapi_decoder context->vaapi_context points   *)
(*                to (live = allocated and not yet freed)                  *)
(*   va           the open hardware handles the live decoder records       *)
(*   relay        the session and subscription ids the MoQ library holds   *)
(*                open                                                     *)
(*   heap         the RGBA buffers that are allocated                      *)
(*   bufdims      the frame size each RGBA buffer was written for          *)
(*   frame_mutex, audio_mutex   the owner of each mutex, "none" when free  *)
(*   faults       memory and handle errors that have happened (sticky)     *)
(*   lc, cb, rn   the lifecycle, callback and render threads: the function *)
(*                being run (op), the position in it (pc), its locals, and *)
(*                how the thread's last call returned (ret, kept until the *)
(*                next return); lc.lost is the hardware handles that the   *)
(*                vaapi_decoder_init just run opened and neither released  *)
(*                nor recorded in the decoder                              *)
(*   rp           the repacker's input and result (SpecRepack)             *)
(***************************************************************************)
VARIABLES context, decoder, va, relay, heap, bufdims,
          frame_mutex, audio_mutex, faults, lc, cb, rn, rp

vars == <<context, decoder, va, relay, heap, bufdims,
          frame_mutex, audio_mutex, faults, lc, cb, rn, rp>>

NoDecoder ==
  [live |-> FALSE, va_display |-> NULL, va_config |-> NULL, va_context |-> NULL,
   codec_ctx |-> NULL, sws_ctx |-> NULL, sws_w |-> 0, sws_h |-> 0]

NoVa == {}

NotRun == [ok |-> FALSE, out |-> <<>>, hi |-> 0, ran |-> FALSE]

\* The callback thread between two callbacks.  conv is the state of the
\* repacked buffer of the access unit being decoded.
IdleCallback ==
  [pc |-> "idle", ret |-> "none", data |-> <<>>, conv |-> "none",
   buf |-> NULL, w |-> 0, h |-> 0]

\* hang_source_create up to its call of hang_source_update: the context is
\* zeroed, and the lifecycle thread is about to enter update with the
\* host's settings.
InitWith(urls, broadcasts, inputs) ==
  /\ context = [url |-> NoString, broadcast_path |-> NoString, active |-> FALSE,
                session_id |-> 0, subscription_id |-> 0,
                vaapi_context |-> NULL, audio_context |-> NULL,
                current_frame_data |-> NULL, current_frame_size |-> 0,
                current_frame_width |-> 0, current_frame_height |-> 0,
                frame_queue_len |-> 0, audio_queue_len |-> 0,
                texture |-> NULL, width |-> 0, height |-> 0]
  /\ decoder = NoDecoder
  /\ va = NoVa
  /\ relay = [sessions |-> {}, subscriptions |-> {}]
  /\ heap = {}
  /\ bufdims = [b \in 1..MaxBuf |-> <<0, 0>>]
  /\ frame_mutex = "none"
  /\ audio_mutex = "none"
  /\ faults = {}
  /\ \E u \in urls, b \in broadcasts :
       lc = [op |-> "create", pc |-> "upd_entry", ret |-> "none", lost |-> {},
             url |-> u, broadcast |-> b]
  /\ cb = IdleCallback
  /\ rn = [pc |-> "idle", w |-> 0, h |-> 0]
  /\ \E input \in inputs : rp = [input |-> input, result |-> NotRun]

(***************************************************************************)
(* The lifecycle thread.                                                   *)
(***************************************************************************)
NoArgs(l) == [l EXCEPT !.url = <<>>, !.broadcast = <<>>, !.lost = {}]

\* The running host call returns with outcome r.
Return(r) == [NoArgs(lc) EXCEPT !.op = "none", !.pc = "idle", !.ret = r]

\* hang_source_deactivate returns with outcome r to whoever called it.
AfterDeactivate(r) ==
  IF lc.op \in {"create", "update"} THEN [lc EXCEPT !.pc = "upd_swap", !.ret = r]
  ELSE IF lc.op = "destroy" THEN [lc EXCEPT !.pc = "des_close", !.ret = r]
  ELSE Return(r)

At(p) == lc.pc = p

Goto(p) == [lc EXCEPT !.pc = p, !.lost = {}]

\* The host calls update / activate / deactivate / destroy through
\* hang_source_info; it makes one lifecycle call at a time, and it destroys
\* a source only when no render of it is running.
HostUpdate(urls, broadcasts) ==
  /\ At("idle")
  /\ \E u \in urls, b \in broadcasts :
       lc' = [lc EXCEPT !.op = "update", !.pc = "upd_entry",
                        !.url = u, !.broadcast = b]
  /\ UNCHANGED <<context, decoder, va, relay, heap, bufdims,
                 frame_mutex, audio_mutex, faults, cb, rn, rp>>

HostActivate ==
  /\ At("idle")
  /\ lc' = [lc EXCEPT !.op = "activate", !.pc = "act_entry"]
  /\ UNCHANGED <<context, decoder, va, relay, heap, bufdims,
                 frame_mutex, audio_mutex, faults, cb, rn, rp>>

HostDeactivate ==
  /\ At("idle")
  /\ lc' = [lc EXCEPT !.op = "deactivate", !.pc = "deact_entry"]
  /\ UNCHANGED <<context, decoder, va, relay, heap, bufdims,
                 frame_mutex, audio_mutex, faults, cb, rn, rp>>

\* hang_source_destroy, line 111: "Stop the source first".
HostDestroy ==
  /\ At("idle")
  /\ rn.pc = "idle"
  /\ lc' = [lc EXCEPT !.op = "destroy", !.pc = "deact_entry"]
  /\ UNCHANGED <<context, decoder, va, relay, heap, bufdims,
                 frame_mutex, audio_mutex, faults, cb, rn, rp>>

(* hang_source_update *)

\* Variant: update without the early return of lines 176-178.
UpdEntry_NoEarlyReturn ==
  /\ At("upd_entry")
  /\ lc' = Goto("deact_entry")
  /\ UNCHANGED <<context, decoder, va, relay, heap, bufdims,
                 frame_mutex, audio_mutex, faults, cb, rn, rp>>

\* Lines 168-180: compare the settings with the stored ones; return when
\* neither changed, otherwise call hang_source_deactivate.
UpdEntry ==
  /\ At("upd_entry")
  /\ LET url_changed == context.url = NoString \/ context.url # lc.url
         broadcast_changed == \/ context.broadcast_path = NoString
                              \/ context.broadcast_path # lc.broadcast
     IN lc' = IF ~url_changed /\ ~broadcast_changed
              THEN Return("update:unchanged")
              ELSE Goto("deact_entry")
  /\ UNCHANGED <<context, decoder, va, relay, heap, bufdims,
                 frame_mutex, audio_mutex, faults, cb, rn, rp>>

\* Lines 183-193: store the new strings; activate when both are non-empty.
UpdSwap ==
  /\ At("upd_swap")
  /\ context' = [context EXCEPT !.url = lc.url, !.broadcast_path = lc.broadcast]
  /\ lc' = IF Len(lc.url) > 0 /\ Len(lc.broadcast) > 0
           THEN NoArgs(Goto("act_entry"))
           ELSE Return("update:stored")
  /\ UNCHANGED <<decoder, va, relay, heap, bufdims,
                 frame_mutex, audio_mutex, faults, cb, rn, rp>>

(***************************************************************************)
(* The video decoder's init and destroy (vaapi-decoder.c).  The hardware   *)
(* and codec libraries decide which step fails; the model draws that.      *)
(***************************************************************************)
\* How far the hardware probe gets.
ProbeOutcomes == {"open_failed", "get_display_failed", "initialize_failed",
                  "config_failed", "context_failed", "hardware"}

\* How far the software fallback gets.
FallbackOutcomes == {"codec_not_found", "alloc_failed", "open2_failed", "software"}

\* vaDestroyContext / vaDestroyConfig / vaTerminate of a handle.
ReleaseFault(open, handle) == IF handle \in open THEN {} ELSE {handle \o "_released_twice"}

\* vaapi_cleanup on the state s = [d: decoder, v: va, f: faults].
vaapi_cleanup(s) ==
  LET s1 == IF s.d.va_context # NULL
            THEN [d |-> [s.d EXCEPT !.va_context = NULL],
                  v |-> s.v \ {"va_context"},
                  f |-> s.f \cup ReleaseFault(s.v, "va_context")]
            ELSE s
      s2 == IF s1.d.va_config # NULL
            THEN [d |-> [s1.d EXCEPT !.va_config = NULL],
                  v |-> s1.v \ {"va_config"},
                  f |-> s1.f \cup ReleaseFault(s1.v, "va_config")]
            ELSE s1
  IN IF s2.d.va_display # NULL
     THEN [d |-> [s2.d EXCEPT !.va_display = NULL],
           v |-> s2.v \ {"va_display"},
           f |-> s2.f \cup ReleaseFault(s2.v, "va_display")]
     ELSE s2

\* vaapi_init_display, vaapi_create_config and vaapi_create_context as
\* vaapi_decoder_init runs them on a freshly zeroed decoder (lines 68-87),
\* with the cleanup each failure does: [d, v, f] and lost, the handles
\* opened and neither released nor recorded in the decoder.  The render
\* node's descriptor is a local of vaapi_init_display, which closes it on
\* its failure paths only.
Probe(outcome, f) ==
  LET fresh == [NoDecoder EXCEPT !.live = TRUE]
      With(s, lost) == [d |-> s.d, v |-> s.v, f |-> s.f, lost |-> lost]
  IN CASE outcome = "open_failed" ->
            With([d |-> fresh, v |-> {}, f |-> f], {})
       [] outcome = "get_display_failed" ->
            With([d |-> fresh, v |-> {}, f |-> f], {})
       [] outcome = "initialize_failed" ->
            \* vaTerminate, close(drm_fd); decoder->va_display is left set
            With([d |-> [fresh EXCEPT !.va_display = 1], v |-> {}, f |-> f], {})
       [] outcome = "config_failed" ->
            With(vaapi_cleanup([d |-> [fresh EXCEPT !.va_display = 1],
                                v |-> {"va_display"}, f |-> f]), {"drm_fd"})
       [] outcome = "context_failed" ->
            With(vaapi_cleanup([d |-> [fresh EXCEPT !.va_display = 1,
                                                    !.va_config = 1],
                                v |-> {"va_display", "va_config"}, f |-> f]),
                 {"drm_fd"})
       [] outcome = "hardware" ->
            With([d |-> [fresh EXCEPT !.va_display = 1, !.va_config = 1,
                                      !.va_context = 1],
                  v |-> {"va_display", "va_config", "va_context"}, f |-> f],
                 {"drm_fd"})

\* vaapi_decoder_init: [ok, d, v, f, lost, ptr] where ptr is what is left
\* in context->vaapi_context.
vaapi_decoder_init(probe, fallback, f) ==
  LET s == Probe(probe, f)
  IN IF probe = "hardware"
     THEN [ok |-> TRUE, d |-> s.d, v |-> s.v, f |-> s.f, lost |-> s.lost,
           ptr |-> 1]
     ELSE IF fallback = "software"
     THEN [ok |-> TRUE, d |-> [s.d EXCEPT !.codec_ctx = 1], v |-> s.v, f |-> s.f,
           lost |-> s.lost, ptr |-> 1]
     ELSE \* lines 95-116: bfree(decoder); context->vaapi_context = NULL
          [ok |-> FALSE, d |-> NoDecoder, v |-> {}, f |-> s.f, lost |-> s.lost,
           ptr |-> NULL]

\* vaapi_decoder_destroy: the new [ptr, d, v, f].  Once the decoder is
\* freed nothing refers to its handles any more, and va is emptied.
vaapi_decoder_destroy(ptr, s) ==
  IF ptr = NULL
  THEN [ptr |-> ptr, d |-> s.d, v |-> s.v, f |-> s.f]
  ELSE LET c == vaapi_cleanup(s)
       IN [ptr |-> NULL, d |-> NoDecoder, v |-> {},
           f |-> IF s.d.live THEN c.f ELSE c.f \cup {"decoder_freed_twice"}]

Hw == [d |-> decoder, v |-> va, f |-> faults]

\* moq_session_close / moq_subscribe_close of an id the relay holds open.
CloseFault(open, id, what) == IF id \in open THEN {} ELSE {what}

\* The relay is assumed to drain a subscription's callbacks during close:
\* moq_subscribe_close returns once no callback of it is running.
RelayDrained == cb.pc = "idle"

(* hang_source_activate *)

\* Variant: activate without the context->active test of line 200.
ActEntry_IgnoresActive ==
  /\ At("act_entry")
  /\ lc' = IF \/ context.url = NoString \/ context.broadcast_path = NoString
              \/ Len(context.url) = 0 \/ Len(context.broadcast_path) = 0
           THEN Return("activate:noop")
           ELSE IF ~UrlPassesValidation(context.url)
           THEN Return("activate:invalid_url")
           ELSE Goto("act_connect")
  /\ UNCHANGED <<context, decoder, va, relay, heap, bufdims,
                 frame_mutex, audio_mutex, faults, cb, rn, rp>>

\* Lines 200-215: return when already active or not configured; reject a
\* URL that fails the validation.
ActEntry ==
  /\ At("act_entry")
  /\ lc' = IF \/ context.active
              \/ context.url = NoString \/ context.broadcast_path = NoString
              \/ Len(context.url) = 0 \/ Len(context.broadcast_path) = 0
           THEN Return("activate:noop")
           ELSE IF ~UrlPassesValidation(context.url)
           THEN Return("activate:invalid_url")
           ELSE Goto("act_connect")
  /\ UNCHANGED <<context, decoder, va, relay, heap, bufdims,
                 frame_mutex, audio_mutex, faults, cb, rn, rp>>

\* Lines 220-224: moq_session_connect.
ActConnect ==
  /\ At("act_connect")
  /\ \E id \in FreshIds(relay.sessions, Handles) \cup FailIds :
       /\ context' = [context EXCEPT !.session_id = id]
       /\ relay' = IF id > 0 THEN [relay EXCEPT !.sessions = @ \cup {id}] ELSE relay
       /\ lc' = IF id <= 0 THEN Return("activate:connect_failed")
                ELSE Goto("act_video_init")
  /\ UNCHANGED <<decoder, va, heap, bufdims,
                 frame_mutex, audio_mutex, faults, cb, rn, rp>>

\* Lines 227-230: vaapi_decoder_init.
ActVideoInit ==
  /\ At("act_video_init")
  /\ \E probe \in ProbeOutcomes, fallback \in FallbackOutcomes :
       LET r == vaapi_decoder_init(probe, fallback, faults)
       IN /\ decoder' = r.d
          /\ va' = r.v
          /\ faults' = r.f
          /\ context' = [context EXCEPT !.vaapi_context = r.ptr]
          /\ lc' = [lc EXCEPT !.pc = IF r.ok THEN "act_audio_init"
                                      ELSE "act_cleanup_sub",
                               !.lost = r.lost]
  /\ UNCHANGED <<relay, heap, bufdims, frame_mutex, audio_mutex, cb, rn, rp>>

\* Lines 232-235: audio_decoder_init (audio-decoder.c).
ActAudioInit ==
  /\ At("act_audio_init")
  /\ \E ok \in BOOLEAN :
       /\ context' = [context EXCEPT !.audio_context = IF ok THEN 1 ELSE NULL]
       /\ lc' = IF ok THEN Goto("act_subscribe") ELSE Goto("act_cleanup_sub")
  /\ UNCHANGED <<decoder, va, relay, heap, bufdims,
                 frame_mutex, audio_mutex, faults, cb, rn, rp>>

\* Lines 238-251: moq_subscribe_create.
ActSubscribe ==
  /\ At("act_subscribe")
  /\ \E id \in FreshIds(relay.subscriptions, Handles) \cup FailIds :
       /\ context' = [context EXCEPT !.subscription_id = id]
       /\ relay' = IF id > 0 THEN [relay EXCEPT !.subscriptions = @ \cup {id}]
                   ELSE relay
       /\ lc' = IF id <= 0 THEN Goto("act_cleanup_sub") ELSE Goto("act_set_active")
  /\ UNCHANGED <<decoder, va, heap, bufdims,
                 frame_mutex, audio_mutex, faults, cb, rn, rp>>

\* Lines 253-255.
ActSetActive ==
  /\ At("act_set_active")
  /\ context' = [context EXCEPT !.active = TRUE]
  /\ lc' = Return("activate:ok")
  /\ UNCHANGED <<decoder, va, relay, heap, bufdims,
                 frame_mutex, audio_mutex, faults, cb, rn, rp>>

\* cleanup, lines 258-261.
ActCleanupSub ==
  /\ At("act_cleanup_sub")
  /\ context.subscription_id > 0 => RelayDrained
  /\ IF context.subscription_id > 0
     THEN /\ relay' = [relay EXCEPT !.subscriptions = @ \ {context.subscription_id}]
          /\ faults' = faults \cup CloseFault(relay.subscriptions,
                                              context.subscription_id,
                                              "subscription_closed_twice")
          /\ context' = [context EXCEPT !.subscription_id = 0]
     ELSE UNCHANGED <<relay, faults, context>>
  /\ lc' = Goto("act_cleanup_session")
  /\ UNCHANGED <<decoder, va, heap, bufdims, frame_mutex, audio_mutex, cb, rn, rp>>

\* Variant: a cleanup that leaves the session open.
ActCleanupSession_NoClose ==
  /\ At("act_cleanup_session")
  /\ lc' = Goto("act_cleanup_video")
  /\ UNCHANGED <<context, relay, faults, decoder, va, heap, bufdims,
                 frame_mutex, audio_mutex, cb, rn, rp>>

\* cleanup, lines 262-265.
ActCleanupSession ==
  /\ At("act_cleanup_session")
  /\ IF context.session_id > 0
     THEN /\ relay' = [relay EXCEPT !.sessions = @ \ {context.session_id}]
          /\ faults' = faults \cup CloseFault(relay.sessions, context.session_id,
                                              "session_closed_twice")
          /\ context' = [context EXCEPT !.session_id = 0]
     ELSE UNCHANGED <<relay, faults, context>>
  /\ lc' = Goto("act_cleanup_video")
  /\ UNCHANGED <<decoder, va, heap, bufdims, frame_mutex, audio_mutex, cb, rn, rp>>

\* cleanup, line 266.
ActCleanupVideo ==
  /\ At("act_cleanup_video")
  /\ LET r == vaapi_decoder_destroy(context.vaapi_context, Hw)
     IN /\ decoder' = r.d
        /\ va' = r.v
        /\ faults' = r.f
        /\ context' = [context EXCEPT !.vaapi_context = r.ptr]
  /\ lc' = Goto("act_cleanup_audio")
  /\ UNCHANGED <<relay, heap, bufdims, frame_mutex, audio_mutex, cb, rn, rp>>

\* cleanup, line 267: audio_decoder_destroy (audio-decoder.c).
ActCleanupAudio ==
  /\ At("act_cleanup_audio")
  /\ context' = [context EXCEPT !.audio_context = NULL]
  /\ lc' = Return("activate:failed")
  /\ UNCHANGED <<decoder, va, relay, heap, bufdims,
                 frame_mutex, audio_mutex, faults, cb, rn, rp>>

(* hang_source_deactivate *)

\* bfree of an RGBA buffer.
FreeFault(buf) == IF buf \in heap THEN {} ELSE {"frame_buffer_freed_twice"}

\* What is known of the buffers' contents once buf is freed.
Forget(buf) == [bufdims EXCEPT ![buf] = <<0, 0>>]

\* Variant: the flag is left set on the way to the closes.
DeactEntry_KeepsFlag ==
  /\ At("deact_entry")
  /\ lc' = IF ~context.active THEN AfterDeactivate("deactivate:inactive")
           ELSE Goto("deact_close_sub")
  /\ UNCHANGED <<context, decoder, va, relay, heap, bufdims,
                 frame_mutex, audio_mutex, faults, cb, rn, rp>>

\* Lines 274-280: return when inactive, otherwise clear the flag.
DeactEntry ==
  /\ At("deact_entry")
  /\ IF ~context.active
     THEN /\ lc' = AfterDeactivate("deactivate:inactive")
          /\ UNCHANGED context
     ELSE /\ context' = [context EXCEPT !.active = FALSE]
          /\ lc' = Goto("deact_close_sub")
  /\ UNCHANGED <<decoder, va, relay, heap, bufdims,
                 frame_mutex, audio_mutex, faults, cb, rn, rp>>

\* Lines 283-286.
DeactCloseSub ==
  /\ At("deact_close_sub")
  /\ context.subscription_id > 0 => RelayDrained
  /\ IF context.subscription_id > 0
     THEN /\ relay' = [relay EXCEPT !.subscriptions = @ \ {context.subscription_id}]
          /\ faults' = faults \cup CloseFault(relay.subscriptions,
                                              context.subscription_id,
                                              "subscription_closed_twice")
          /\ context' = [context EXCEPT !.subscription_id = 0]
     ELSE UNCHANGED <<relay, faults, context>>
  /\ lc' = Goto("deact_close_session")
  /\ UNCHANGED <<decoder, va, heap, bufdims, frame_mutex, audio_mutex, cb, rn, rp>>

\* Variant: the session id is forgotten and the session left open.
DeactCloseSession_KeepsOpen ==
  /\ At("deact_close_session")
  /\ context' = [context EXCEPT !.session_id = 0]
  /\ lc' = Goto("deact_destroy_video")
  /\ UNCHANGED <<relay, faults, decoder, va, heap, bufdims,
                 frame_mutex, audio_mutex, cb, rn, rp>>

\* Lines 287-290.
DeactCloseSession ==
  /\ At("deact_close_session")
  /\ IF context.session_id > 0
     THEN /\ relay' = [relay EXCEPT !.sessions = @ \ {context.session_id}]
          /\ faults' = faults \cup CloseFault(relay.sessions, context.session_id,
                                              "session_closed_twice")
          /\ context' = [context EXCEPT !.session_id = 0]
     ELSE UNCHANGED <<relay, faults, context>>
  /\ lc' = Goto("deact_destroy_video")
  /\ UNCHANGED <<decoder, va, heap, bufdims, frame_mutex, audio_mutex, cb, rn, rp>>

\* Line 293.
DeactDestroyVideo ==
  /\ At("deact_destroy_video")
  /\ LET r == vaapi_decoder_destroy(context.vaapi_context, Hw)
     IN /\ decoder' = r.d
        /\ va' = r.v
        /\ faults' = r.f
        /\ context' = [context EXCEPT !.vaapi_context = r.ptr]
  /\ lc' = Goto("deact_destroy_audio")
  /\ UNCHANGED <<relay, heap, bufdims, frame_mutex, audio_mutex, cb, rn, rp>>

\* Line 294: audio_decoder_destroy (audio-decoder.c).
DeactDestroyAudio ==
  /\ At("deact_destroy_audio")
  /\ context' = [context EXCEPT !.audio_context = NULL]
  /\ lc' = Goto("deact_lock_frame")
  /\ UNCHANGED <<decoder, va, relay, heap, bufdims,
                 frame_mutex, audio_mutex, faults, cb, rn, rp>>

\* Line 297.
DeactLockFrame ==
  /\ At("deact_lock_frame")
  /\ frame_mutex = "none"
  /\ frame_mutex' = "lifecycle"
  /\ lc' = Goto("deact_flush_frame")
  /\ UNCHANGED <<context, decoder, va, relay, heap, bufdims,
                 audio_mutex, faults, cb, rn, rp>>

\* Variant: a flush that frees the latest frame and leaves its pointer and
\* dimensions in the slot.
DeactFlushFrame_KeepsSlot ==
  /\ At("deact_flush_frame")
  /\ IF context.current_frame_data # NULL
     THEN /\ heap' = heap \ {context.current_frame_data}
          /\ bufdims' = Forget(context.current_frame_data)
          /\ faults' = faults \cup FreeFault(context.current_frame_data)
     ELSE UNCHANGED <<heap, bufdims, faults>>
  /\ context' = [context EXCEPT !.frame_queue_len = 0]
  /\ frame_mutex' = "none"
  /\ lc' = Goto("deact_lock_audio")
  /\ UNCHANGED <<decoder, va, relay, audio_mutex, cb, rn, rp>>

\* Variant: the flush goes on to the audio queue with the frame mutex still
\* locked.
DeactFlushFrame_KeepsLock ==
  /\ At("deact_flush_frame")
  /\ IF context.current_frame_data # NULL
     THEN /\ heap' = heap \ {context.current_frame_data}
          /\ bufdims' = Forget(context.current_frame_data)
          /\ faults' = faults \cup FreeFault(context.current_frame_data)
          /\ context' = [context EXCEPT !.current_frame_data = NULL,
                                        !.current_frame_size = 0,
                                        !.current_frame_width = 0,
                                        !.current_frame_height = 0,
                                        !.frame_queue_len = 0]
     ELSE /\ context' = [context EXCEPT !.frame_queue_len = 0]
          /\ UNCHANGED <<heap, bufdims, faults>>
  /\ lc' = Goto("deact_lock_audio")
  /\ UNCHANGED <<decoder, va, relay, frame_mutex, audio_mutex, cb, rn, rp>>

\* Lines 298-311: free and clear the latest-frame slot, empty the frame
\* queue, unlock.
DeactFlushFrame ==
  /\ At("deact_flush_frame")
  /\ IF context.current_frame_data # NULL
     THEN /\ heap' = heap \ {context.current_frame_data}
          /\ bufdims' = Forget(context.current_frame_data)
          /\ faults' = faults \cup FreeFault(context.current_frame_data)
          /\ context' = [context EXCEPT !.current_frame_data = NULL,
                                        !.current_frame_size = 0,
                                        !.current_frame_width = 0,
                                        !.current_frame_height = 0,
                                        !.frame_queue_len = 0]
     ELSE /\ context' = [context EXCEPT !.frame_queue_len = 0]
          /\ UNCHANGED <<heap, bufdims, faults>>
  /\ frame_mutex' = "none"
  /\ lc' = Goto("deact_lock_audio")
  /\ UNCHANGED <<decoder, va, relay, audio_mutex, cb, rn, rp>>

\* Line 313.
DeactLockAudio ==
  /\ At("deact_lock_audio")
  /\ audio_mutex = "none"
  /\ audio_mutex' = "lifecycle"
  /\ lc' = Goto("deact_flush_audio")
  /\ UNCHANGED <<context, decoder, va, relay, heap, bufdims,
                 frame_mutex, faults, cb, rn, rp>>

\* Lines 314-325: free every queued audio descriptor, unlock, return.
DeactFlushAudio ==
  /\ At("deact_flush_audio")
  /\ context' = [context EXCEPT !.audio_queue_len = 0]
  /\ audio_mutex' = "none"
  /\ lc' = AfterDeactivate("deactivate:flushed")
  /\ UNCHANGED <<decoder, va, relay, heap, bufdims, frame_mutex, faults, cb, rn, rp>>

(* hang_source_destroy, after its call of hang_source_deactivate *)

\* Lines 114-119: close whatever ids are still positive.
DesClose ==
  /\ At("des_close")
  /\ context.subscription_id > 0 => RelayDrained
  /\ relay' = [sessions |-> relay.sessions \ {context.session_id},
               subscriptions |-> relay.subscriptions \ {context.subscription_id}]
  /\ faults' = faults
       \cup (IF context.subscription_id > 0
             THEN CloseFault(relay.subscriptions, context.subscription_id,
                             "subscription_closed_twice") ELSE {})
       \cup (IF context.session_id > 0
             THEN CloseFault(relay.sessions, context.session_id,
                             "session_closed_twice") ELSE {})
  /\ lc' = Goto("des_decoders")
  /\ UNCHANGED <<context, decoder, va, heap, bufdims,
                 frame_mutex, audio_mutex, cb, rn, rp>>

\* Lines 122-123.
DesDecoders ==
  /\ At("des_decoders")
  /\ LET r == vaapi_decoder_destroy(context.vaapi_context, Hw)
     IN /\ decoder' = r.d
        /\ va' = r.v
        /\ faults' = r.f
        /\ context' = [context EXCEPT !.vaapi_context = r.ptr,
                                      !.audio_context = NULL]
  /\ lc' = Goto("des_frame")
  /\ UNCHANGED <<relay, heap, bufdims, frame_mutex, audio_mutex, cb, rn, rp>>

\* Lines 126-133: the texture and the latest frame, without the mutex.
DesFrame ==
  /\ At("des_frame")
  /\ context' = [context EXCEPT !.texture = NULL]
  /\ IF context.current_frame_data # NULL
     THEN /\ heap' = heap \ {context.current_frame_data}
          /\ bufdims' = Forget(context.current_frame_data)
          /\ faults' = faults \cup FreeFault(context.current_frame_data)
     ELSE UNCHANGED <<heap, bufdims, faults>>
  /\ lc' = Goto("des_free")
  /\ UNCHANGED <<decoder, va, relay, frame_mutex, audio_mutex, cb, rn, rp>>

\* Lines 136-161: the queues, the mutexes, the strings and the context.
DesFree ==
  /\ At("des_free")
  /\ lc' = [Return("destroy:freed") EXCEPT !.pc = "freed"]
  /\ UNCHANGED <<context, decoder, va, relay, heap, bufdims,
                 frame_mutex, audio_mutex, faults, cb, rn, rp>>

(***************************************************************************)
(* The relay's callback thread: on_video and on_audio.                     *)
(***************************************************************************)
\* The access units the relay delivers: empty, one NAL of one byte, and one
\* whose length prefix runs past the end.
AccessUnits == {<<>>, <<0, 0, 0, 1, 2>>, <<0, 0, 0, 2, 1>>}

\* The relay runs a subscription's callbacks from moq_subscribe_create
\* until moq_subscribe_close, one at a time.
CanDeliver == cb.pc = "idle" /\ relay.subscriptions # {}

\* The callback returns with outcome r.
Done(c, r) == [c EXCEPT !.pc = "done", !.ret = r, !.data = <<>>]

\* on_video, lines 426-433: drop the unit when the context is not active.
VideoDeliver ==
  /\ CanDeliver
  /\ \E data \in AccessUnits :
       cb' = IF ~context.active THEN Done(cb, "dropped")
             ELSE [cb EXCEPT !.pc = "v_decode", !.data = data]
  /\ UNCHANGED <<context, decoder, va, relay, heap, bufdims,
                 frame_mutex, audio_mutex, faults, lc, rn, rp>>

\* vaapi_decoder_decode, lines 147-162: read context->vaapi_context and
\* pick the backend; vaapi_decode_frame is a placeholder returning false.
VideoDecode ==
  /\ cb.pc = "v_decode"
  /\ cb' = IF context.vaapi_context = NULL THEN Done(cb, "no_decoder")
           ELSE IF decoder.va_display # NULL THEN Done(cb, "vaapi_not_implemented")
           ELSE IF decoder.codec_ctx # NULL THEN [cb EXCEPT !.pc = "v_software"]
           ELSE Done(cb, "no_backend")
  /\ UNCHANGED <<context, decoder, va, relay, heap, bufdims,
                 frame_mutex, audio_mutex, faults, lc, rn, rp>>

\* What the codec and the allocator do with a repacked unit.
DecodeOutcomes == {"packet_alloc_failed", "send_error", "frame_alloc_failed",
                   "receive_error", "needs_more_input", "sws_failed",
                   "rgba_alloc_failed", "scale_failed", "frame"}

\* The exits of software_decode_frame that return without bfree(converted_data):
\* lines 360-363 and 382-386.
LeavesConverted == {"frame_alloc_failed", "sws_failed"}

\* The outcomes in which avcodec_receive_frame hands back a frame and the
\* converter exists or is created (lines 377-387 passed).
ProducesFrame == {"rgba_alloc_failed", "scale_failed", "frame"}

\* Variant: a unit the repacker rejects ends the subscription's activity.
SoftwareDecode_ErrorDeactivates ==
  /\ cb.pc = "v_software"
  /\ LET conv == convert_mp4_nal_units_to_annex_b(cb.data)
         uaf == IF decoder.live THEN {} ELSE {"decoder_used_after_free"}
     IN IF ~conv.ok
        THEN /\ cb' = Done(cb, "convert_failed")
             /\ context' = [context EXCEPT !.active = FALSE]
             /\ UNCHANGED <<decoder, heap, bufdims, faults>>
        ELSE \E outcome \in DecodeOutcomes, size \in VideoSizes \cup {<<0, 0>>},
                b \in FreshIds(heap, 1..MaxBuf) \cup {NULL} :
               /\ outcome = "sws_failed" => decoder.sws_ctx = NULL
               /\ outcome = "frame" <=> b # NULL
               /\ outcome \in ProducesFrame <=> size \in VideoSizes
               /\ faults' = faults \cup uaf
               /\ UNCHANGED context
               /\ IF outcome \in ProducesFrame /\ decoder.sws_ctx = NULL
                  THEN decoder' = [decoder EXCEPT !.sws_ctx = 1,
                                                  !.sws_w = size[1], !.sws_h = size[2]]
                  ELSE UNCHANGED decoder
               /\ IF outcome = "frame"
                  THEN /\ heap' = heap \cup {b}
                       /\ bufdims' = [bufdims EXCEPT ![b] = size]
                       /\ cb' = [cb EXCEPT !.pc = "v_store_lock", !.data = <<>>,
                                           !.conv = "live", !.buf = b,
                                           !.w = size[1], !.h = size[2]]
                  ELSE /\ cb' = [Done(cb, outcome) EXCEPT
                                   !.conv = IF outcome \in LeavesConverted
                                            THEN "live" ELSE "freed"]
                       /\ UNCHANGED <<heap, bufdims>>
  /\ UNCHANGED <<va, relay, frame_mutex, audio_mutex, lc, rn, rp>>

\* software_decode_frame, lines 327-412: repack, send, receive, convert to
\* RGBA.  On a frame the thread goes on to store_decoded_frame with the
\* buffer it allocated.
SoftwareDecode ==
  /\ cb.pc = "v_software"
  /\ LET conv == convert_mp4_nal_units_to_annex_b(cb.data)
         uaf == IF decoder.live THEN {} ELSE {"decoder_used_after_free"}
     IN IF ~conv.ok
        THEN /\ cb' = Done(cb, "convert_failed")
             /\ UNCHANGED <<decoder, heap, bufdims, faults>>
        ELSE \E outcome \in DecodeOutcomes, size \in VideoSizes \cup {<<0, 0>>},
                b \in FreshIds(heap, 1..MaxBuf) \cup {NULL} :
               /\ outcome = "sws_failed" => decoder.sws_ctx = NULL
               /\ outcome = "frame" <=> b # NULL
               /\ outcome \in ProducesFrame <=> size \in VideoSizes
               /\ faults' = faults \cup uaf
               /\ IF outcome \in ProducesFrame /\ decoder.sws_ctx = NULL
                  THEN decoder' = [decoder EXCEPT !.sws_ctx = 1,
                                                  !.sws_w = size[1], !.sws_h = size[2]]
                  ELSE UNCHANGED decoder
               /\ IF outcome = "frame"
                  THEN /\ heap' = heap \cup {b}
                       /\ bufdims' = [bufdims EXCEPT ![b] = size]
                       /\ cb' = [cb EXCEPT !.pc = "v_store_lock", !.data = <<>>,
                                           !.conv = "live", !.buf = b,
                                           !.w = size[1], !.h = size[2]]
                  ELSE /\ cb' = [Done(cb, outcome) EXCEPT
                                   !.conv = IF outcome \in LeavesConverted
                                            THEN "live" ELSE "freed"]
                       /\ UNCHANGED <<heap, bufdims>>
  /\ UNCHANGED <<context, va, relay, frame_mutex, audio_mutex, lc, rn, rp>>

\* Variant: store_decoded_frame goes on without waiting for the frame mutex.
StoreLock_NoWait ==
  /\ cb.pc = "v_store_lock"
  /\ frame_mutex' = "callback"
  /\ cb' = [cb EXCEPT !.pc = "v_store"]
  /\ UNCHANGED <<context, decoder, va, relay, heap, bufdims,
                 audio_mutex, faults, lc, rn, rp>>

\* store_decoded_frame, line 426.
StoreLock ==
  /\ cb.pc = "v_store_lock"
  /\ frame_mutex = "none"
  /\ frame_mutex' = "callback"
  /\ cb' = [cb EXCEPT !.pc = "v_store"]
  /\ UNCHANGED <<context, decoder, va, relay, heap, bufdims,
                 audio_mutex, faults, lc, rn, rp>>

\* Variant: the slot's size is set to the pixel count.
StoreInstall_PixelCount ==
  /\ cb.pc = "v_store"
  /\ IF context.current_frame_data # NULL
     THEN /\ heap' = heap \ {context.current_frame_data}
          /\ bufdims' = Forget(context.current_frame_data)
          /\ faults' = faults \cup FreeFault(context.current_frame_data)
     ELSE UNCHANGED <<heap, bufdims, faults>>
  /\ context' = [context EXCEPT !.current_frame_data = cb.buf,
                                !.current_frame_size = cb.w * cb.h,
                                !.current_frame_width = cb.w,
                                !.current_frame_height = cb.h]
  /\ frame_mutex' = "none"
  /\ cb' = [Done(cb, "staged") EXCEPT !.conv = "freed"]
  /\ UNCHANGED <<decoder, va, relay, audio_mutex, lc, rn, rp>>

\* Variant: the previous buffer is not released.
StoreInstall_LeaksPrevious ==
  /\ cb.pc = "v_store"
  /\ context' = [context EXCEPT !.current_frame_data = cb.buf,
                                !.current_frame_size = cb.w * cb.h * BytesPerPixel,
                                !.current_frame_width = cb.w,
                                !.current_frame_height = cb.h]
  /\ frame_mutex' = "none"
  /\ cb' = [Done(cb, "staged") EXCEPT !.conv = "freed"]
  /\ UNCHANGED <<heap, bufdims, faults, decoder, va, relay, audio_mutex, lc, rn, rp>>

\* store_decoded_frame, lines 429-439: release the previous buffer, install
\* the new one with rgba_size = width * height * 4 (line 390), unlock; then
\* software_decode_frame's lines 417-421 free the repacked unit and return.
StoreInstall ==
  /\ cb.pc = "v_store"
  /\ IF context.current_frame_data # NULL
     THEN /\ heap' = heap \ {context.current_frame_data}
          /\ bufdims' = Forget(context.current_frame_data)
          /\ faults' = faults \cup FreeFault(context.current_frame_data)
     ELSE UNCHANGED <<heap, bufdims, faults>>
  /\ context' = [context EXCEPT !.current_frame_data = cb.buf,
                                !.current_frame_size = cb.w * cb.h * BytesPerPixel,
                                !.current_frame_width = cb.w,
                                !.current_frame_height = cb.h]
  /\ frame_mutex' = "none"
  /\ cb' = [Done(cb, "staged") EXCEPT !.conv = "freed"]
  /\ UNCHANGED <<decoder, va, relay, audio_mutex, lc, rn, rp>>

\* on_audio, lines 443-449: drop the unit when the context is not active.
AudioDeliver ==
  /\ CanDeliver
  /\ cb' = IF ~context.active THEN Done(cb, "dropped")
           ELSE [cb EXCEPT !.pc = "a_decode"]
  /\ UNCHANGED <<context, decoder, va, relay, heap, bufdims,
                 frame_mutex, audio_mutex, faults, lc, rn, rp>>

\* audio_decoder_decode (audio-decoder.c): decode one unit; on success go on
\* to enqueue the PCM descriptor.
AudioDecode ==
  /\ cb.pc = "a_decode"
  /\ \E ok \in BOOLEAN :
       cb' = IF ok /\ context.audio_context # NULL
             THEN [cb EXCEPT !.pc = "a_lock"] ELSE Done(cb, "audio_failed")
  /\ UNCHANGED <<context, decoder, va, relay, heap, bufdims,
                 frame_mutex, audio_mutex, faults, lc, rn, rp>>

AudioLock ==
  /\ cb.pc = "a_lock"
  /\ audio_mutex = "none"
  /\ audio_mutex' = "callback"
  /\ cb' = [cb EXCEPT !.pc = "a_enqueue"]
  /\ UNCHANGED <<context, decoder, va, relay, heap, bufdims,
                 frame_mutex, faults, lc, rn, rp>>

\* Variant: an enqueue that never drops.
AudioEnqueue_NoDropOldest ==
  /\ cb.pc = "a_enqueue"
  /\ context' = [context EXCEPT !.audio_queue_len = @ + 1]
  /\ audio_mutex' = "none"
  /\ cb' = Done(cb, "queued")
  /\ UNCHANGED <<decoder, va, relay, heap, bufdims, frame_mutex, faults, lc, rn, rp>>

\* Enqueue under the audio mutex; a full queue drops its oldest descriptor.
AudioEnqueue ==
  /\ cb.pc = "a_enqueue"
  /\ context' = [context EXCEPT !.audio_queue_len =
                   IF @ >= QueueCap THEN QueueCap ELSE @ + 1]
  /\ audio_mutex' = "none"
  /\ cb' = Done(cb, IF context.audio_queue_len >= QueueCap
                    THEN "queued_dropped_oldest" ELSE "queued")
  /\ UNCHANGED <<decoder, va, relay, heap, bufdims, frame_mutex, faults, lc, rn, rp>>

\* on_video / on_audio return to the relay.
CallbackReturn ==
  /\ cb.pc = "done"
  /\ cb' = IdleCallback
  /\ UNCHANGED <<context, decoder, va, relay, heap, bufdims,
                 frame_mutex, audio_mutex, faults, lc, rn, rp>>

(***************************************************************************)
(* The render thread: hang_source_video_render.                            *)
(***************************************************************************)
IdleRender == [pc |-> "idle", w |-> 0, h |-> 0]

\* Lines 350-352.  The host renders a source it has created and is not
\* destroying.
RenderEntry ==
  /\ rn.pc = "idle"
  /\ lc.op \notin {"create", "destroy"} /\ lc.pc # "freed"
  /\ rn' = IF context.active THEN [rn EXCEPT !.pc = "lock"] ELSE rn
  /\ UNCHANGED <<context, decoder, va, relay, heap, bufdims,
                 frame_mutex, audio_mutex, faults, lc, cb, rp>>

\* Line 355.
RenderLock ==
  /\ rn.pc = "lock"
  /\ frame_mutex = "none"
  /\ frame_mutex' = "render"
  /\ rn' = [rn EXCEPT !.pc = "prepare"]
  /\ UNCHANGED <<context, decoder, va, relay, heap, bufdims,
                 audio_mutex, faults, lc, cb, rp>>

\* Lines 356-368: read the slot's dimensions; create the texture anew when
\* it is missing or of another size (gs_texture_create can fail).
RenderPrepare ==
  /\ rn.pc = "prepare"
  /\ IF /\ context.current_frame_data # NULL
        /\ context.current_frame_width > 0 /\ context.current_frame_height > 0
     THEN LET width == context.current_frame_width
              height == context.current_frame_height
          IN /\ rn' = [pc |-> "upload", w |-> width, h |-> height]
             /\ IF \/ context.texture = NULL
                   \/ context.width # width \/ context.height # height
                THEN \E tex \in {NULL, 1} :
                       context' = [context EXCEPT !.texture = tex,
                                                  !.width = width, !.height = height]
                ELSE UNCHANGED context
     ELSE /\ rn' = [rn EXCEPT !.pc = "unlock"]
          /\ UNCHANGED context
  /\ UNCHANGED <<decoder, va, relay, heap, bufdims,
                 frame_mutex, audio_mutex, faults, lc, cb, rp>>

\* Lines 370-397: upload current_frame_data with row stride width * 4 and
\* draw a width x height sprite.
RenderUpload ==
  /\ rn.pc = "upload"
  /\ faults' = IF context.texture # NULL /\ context.current_frame_data \notin heap
               THEN faults \cup {"frame_buffer_used_after_free"} ELSE faults
  /\ rn' = [rn EXCEPT !.pc = "unlock"]
  /\ UNCHANGED <<context, decoder, va, relay, heap, bufdims,
                 frame_mutex, audio_mutex, lc, cb, rp>>

\* Line 399.
RenderUnlock ==
  /\ rn.pc = "unlock"
  /\ frame_mutex' = "none"
  /\ rn' = IdleRender
  /\ UNCHANGED <<context, decoder, va, relay, heap, bufdims,
                 audio_mutex, faults, lc, cb, rp>>

(***************************************************************************)
(* hang_source_get_width / hang_source_get_height: what a call returns in  *)
(* the current state (lines 402-412; no lock is taken).                    *)
(***************************************************************************)
hang_source_get_width ==
  IF context.current_frame_width > 0 THEN context.current_frame_width
  ELSE DefaultWidth

hang_source_get_height ==
  IF context.current_frame_height > 0 THEN context.current_frame_height
  ELSE DefaultHeight

\* The host asks for the source's size on the thread that renders it: a
\* call of get_width, then a call of get_height.  Neither takes a lock.
QueryWidth ==
  /\ rn.pc = "idle"
  /\ lc.op \notin {"create", "destroy"} /\ lc.pc # "freed"
  /\ rn' = [pc |-> "got_width", w |-> hang_source_get_width, h |-> 0]
  /\ UNCHANGED <<context, decoder, va, relay, heap, bufdims,
                 frame_mutex, audio_mutex, faults, lc, cb, rp>>

QueryHeight ==
  /\ rn.pc = "got_width"
  /\ rn' = [rn EXCEPT !.pc = "got_size", !.h = hang_source_get_height]
  /\ UNCHANGED <<context, decoder, va, relay, heap, bufdims,
                 frame_mutex, audio_mutex, faults, lc, cb, rp>>

\* The host has used the size.
QueryReturn ==
  /\ rn.pc = "got_size"
  /\ rn' = IdleRender
  /\ UNCHANGED <<context, decoder, va, relay, heap, bufdims,
                 frame_mutex, audio_mutex, faults, lc, cb, rp>>

(***************************************************************************)
(* Specifications.                                                         *)
(***************************************************************************)
\* The settings the host offers in the concurrent specifications.
Urls == {<<"h">>, <<"h", ":", "/", "/", "h">>}
Broadcasts == {<<>>, <<"a">>}

Lifecycle ==
  \/ HostActivate \/ HostDeactivate \/ HostDestroy
  \/ UpdEntry \/ UpdSwap
  \/ ActEntry \/ ActConnect \/ ActVideoInit \/ ActAudioInit \/ ActSubscribe
  \/ ActSetActive
  \/ ActCleanupSub \/ ActCleanupSession \/ ActCleanupVideo \/ ActCleanupAudio
  \/ DeactEntry \/ DeactCloseSub \/ DeactCloseSession
  \/ DeactDestroyVideo \/ DeactDestroyAudio
  \/ DeactLockFrame \/ DeactFlushFrame \/ DeactLockAudio \/ DeactFlushAudio
  \/ DesClose \/ DesDecoders \/ DesFrame \/ DesFree

Video ==
  \/ VideoDeliver \/ VideoDecode \/ SoftwareDecode \/ StoreLock \/ StoreInstall
  \/ CallbackReturn

Audio == AudioDeliver \/ AudioDecode \/ AudioLock \/ AudioEnqueue

Render == RenderEntry \/ RenderLock \/ RenderPrepare \/ RenderUpload \/ RenderUnlock

Init == InitWith(Urls, Broadcasts, {<<>>})

\* The lifecycle thread, the relay delivering video, and the render thread.
Next == HostUpdate(Urls, Broadcasts) \/ Lifecycle \/ Video \/ Render

Spec == Init /\ [][Next]_vars

\* The lifecycle thread and the relay delivering video and audio.
NextIngest == HostUpdate(Urls, Broadcasts) \/ Lifecycle \/ Video \/ Audio

SpecIngest == Init /\ [][NextIngest]_vars

\* The lifecycle thread, the relay delivering video, and the host asking
\* for the source's size.
Query == QueryWidth \/ QueryHeight \/ QueryReturn

NextQuery == HostUpdate(Urls, Broadcasts) \/ Lifecycle \/ Video \/ Query

SpecQuery == Init /\ [][NextQuery]_vars

\* The lifecycle thread alone, on a source created with any short URL.
AllUrls == SeqsUpTo(UrlChars, MaxUrlLen)

InitLifecycle == InitWith(AllUrls, Broadcasts, {<<>>})

NextLifecycle == HostUpdate(Urls, Broadcasts) \/ Lifecycle

SpecLifecycle == InitLifecycle /\ [][NextLifecycle]_vars

\* The repacker alone, on every short access unit.
Convert ==
  /\ ~rp.result.ran
  /\ LET r == convert_mp4_nal_units_to_annex_b(rp.input)
     IN rp' = [rp EXCEPT !.result = [ok |-> r.ok, out |-> r.out, hi |-> r.hi,
                                     ran |-> TRUE]]
  /\ UNCHANGED <<context, decoder, va, relay, heap, bufdims,
                 frame_mutex, audio_mutex, faults, lc, cb, rn>>

InitRepack == InitWith({<<>>}, {<<>>}, SeqsUpTo(ByteVals, MaxInputLen))

NextRepack == Convert

SpecRepack == InitRepack /\ [][NextRepack]_vars

(***************************************************************************)
(* Properties.                                                             *)
(***************************************************************************)
SlotEmpty ==
  /\ context.current_frame_data = NULL
  /\ context.current_frame_size = 0
  /\ context.current_frame_width = 0
  /\ context.current_frame_height = 0

\* hang_source_deactivate has just returned, to the host or to the update or
\* destroy that called it.
DeactivateReturned ==
  /\ lc.ret \in {"deactivate:inactive", "deactivate:flushed"}
  /\ lc.pc \in {"idle", "upd_swap", "des_close"}

\* C1: whenever hang_source_deactivate returns, the latest-frame slot is
\* empty, both queue lengths are 0, and neither the session id nor the
\* subscription id is positive.
C1_DeactivateLeavesNothing ==
  DeactivateReturned =>
    /\ SlotEmpty
    /\ context.frame_queue_len = 0
    /\ context.audio_queue_len = 0
    /\ ~(context.session_id > 0)
    /\ ~(context.subscription_id > 0)

\* A deactivate of an active context has returned to the host.
C1_Witness ==
  /\ lc.pc = "idle" /\ lc.ret = "deactivate:flushed"
  /\ SlotEmpty /\ context.audio_queue_len = 0

\* C2: once deactivate has set active = false, no callback still in flight
\* reads or uses a decoder instance: every step of a callback that reads
\* context->vaapi_context or decodes with it is taken while active holds.
C2_NoDecoderUseOnceInactive ==
  [][(VideoDecode \/ SoftwareDecode) => context.active]_vars

ActivateFailed ==
  /\ lc.pc = "idle"
  /\ lc.ret \in {"activate:invalid_url", "activate:connect_failed", "activate:failed"}

\* C3: whenever hang_source_activate returns without having activated the
\* context, the context is inactive and holds no open session, no open
\* subscription and no decoder instance.
C3_FailedActivateHoldsNothing ==
  ActivateFailed =>
    /\ ~context.active
    /\ ~(context.session_id > 0) /\ relay.sessions = {}
    /\ ~(context.subscription_id > 0) /\ relay.subscriptions = {}
    /\ context.vaapi_context = NULL /\ ~decoder.live
    /\ context.audio_context = NULL

\* moq_subscribe_create failed after the session and both decoders were
\* acquired, and activate has returned.
C3_Witness ==
  /\ ActivateFailed /\ lc.ret = "activate:failed"
  /\ context.subscription_id = -1

\* The host segment of a URL: what stands between the first "://" and the
\* next "/".
HostSegment(url) ==
  LET i == StrStr(url, SchemeSep)
      rest == SubSeq(url, i + 3, Len(url))
      j == StrStr(rest, <<"/">>)
  IN IF j = 0 THEN rest ELSE SubSeq(rest, 1, j - 1)

HasSchemeAndHost(url) ==
  /\ StrStr(url, SchemeSep) # 0
  /\ HostSegment(url) # <<>>

\* C4: for a URL without "://" or with an empty host segment after it,
\* hang_source_activate never calls moq_session_connect and no session id is
\* held: activate is at its connect call, or holds a session, only with a
\* URL that has both.
C4_NoConnectWithoutHost ==
  (lc.pc = "act_connect" \/ context.session_id > 0) => HasSchemeAndHost(context.url)

SameSettings ==
  /\ context.url = lc.url
  /\ context.broadcast_path = lc.broadcast

\* C5: hang_source_update with the stored URL and broadcast path returns at
\* once and changes nothing: no field of the context, no decoder, no relay
\* id, no buffer.
C5_UpdateUnchangedIsNoOp ==
  [][(UpdEntry /\ SameSettings) =>
       /\ lc'.pc = "idle" /\ lc'.ret = "update:unchanged"
       /\ UNCHANGED <<context, decoder, va, relay, heap, bufdims,
                      frame_mutex, audio_mutex, faults>>]_vars

\* An update with unchanged settings has returned on an active context with
\* a staged frame.
C5_Witness ==
  /\ lc.pc = "idle" /\ lc.ret = "update:unchanged"
  /\ context.active /\ context.current_frame_data # NULL

\* hang_source_activate is running, called by the host right after a run
\* of hang_source_activate returned (lc.ret is how that run returned).
SecondActivate ==
  /\ lc.op = "activate"
  /\ lc.ret \in {"activate:ok", "activate:noop", "activate:invalid_url",
                 "activate:connect_failed", "activate:failed"}

\* C6 as claimed: a second hang_source_activate in a row opens no session.
C6_SecondActivateOpensNothing ==
  ~(SecondActivate /\ lc.pc = "act_video_init" /\ context.session_id > 0)

\* C6, amended: a hang_source_activate called right after one that left the
\* context active, or that returned because the configuration is incomplete
\* or the URL invalid, returns at once and changes nothing.
C6_SecondActivateAfterSettledFirst ==
  [][(/\ ActEntry /\ SecondActivate
      /\ lc.ret \in {"activate:ok", "activate:noop", "activate:invalid_url"}) =>
       /\ lc'.pc = "idle"
       /\ UNCHANGED <<context, decoder, va, relay, heap, bufdims, faults>>]_vars

\* A second activate in a row has been called on the context the first one
\* activated.
C6_Witness ==
  /\ SecondActivate /\ lc.pc = "act_entry"
  /\ lc.ret = "activate:ok" /\ context.active

\* C7: whenever the latest-frame slot holds a buffer, its size is
\* width x height x 4 and width and height are positive.
C7_SlotSizeMatchesDimensions ==
  context.current_frame_data # NULL =>
    /\ context.current_frame_size =
         context.current_frame_width * context.current_frame_height * BytesPerPixel
    /\ context.current_frame_width > 0
    /\ context.current_frame_height > 0

C7_Witness ==
  /\ context.current_frame_data # NULL
  /\ context.current_frame_width = 1920 /\ context.current_frame_height = 1080

\* C8: while render is between its read of the dimensions and the end of
\* its upload, it holds the frame mutex, the slot's buffer is allocated and
\* is the buffer of a frame of exactly the width and height render read,
\* and no freed buffer has been uploaded.
C8_RenderUploadsOneFrame ==
  /\ rn.pc = "upload" =>
       /\ frame_mutex = "render"
       /\ context.current_frame_data \in heap
       /\ bufdims[context.current_frame_data] = <<rn.w, rn.h>>
       /\ context.current_frame_width = rn.w /\ context.current_frame_height = rn.h
  /\ "frame_buffer_used_after_free" \notin faults

\* Render is about to upload while a newly decoded frame waits for the mutex.
C8_Witness ==
  /\ rn.pc = "upload" /\ cb.pc = "v_store_lock"
  /\ <<cb.w, cb.h>> # <<rn.w, rn.h>>

\* C9: a frame staged over another leaves exactly the new frame's buffer,
\* size, width and height in the slot, and the step that installs it, taken
\* with the frame mutex held, frees the previous buffer, which was still
\* allocated.
C9_NewestWins ==
  [][StoreInstall =>
       /\ frame_mutex = "callback"
       /\ context'.current_frame_data = cb.buf
       /\ context'.current_frame_size = cb.w * cb.h * BytesPerPixel
       /\ context'.current_frame_width = cb.w
       /\ context'.current_frame_height = cb.h
       /\ context.current_frame_data # NULL =>
            /\ context.current_frame_data \in heap
            /\ context.current_frame_data \notin heap'
       /\ heap' = {cb.buf}
       /\ faults' = faults]_vars

\* The second buffer has replaced the first, which is freed.
C9_Witness ==
  /\ cb.pc = "done" /\ cb.ret = "staged"
  /\ context.current_frame_data = 2 /\ heap = {2}

\* The NAL payloads of a length-prefixed unit, in order, as the framing
\* defines them: a 4-byte big-endian length, then that many bytes.
RECURSIVE Nals(_)
Nals(s) ==
  IF Len(s) < 4 THEN <<>>
  ELSE LET n == s[1] * 16777216 + s[2] * 65536 + s[3] * 256 + s[4]
       IN <<SubSeq(s, 5, 4 + n)>> \o Nals(SubSeq(s, 5 + n, Len(s)))

RECURSIVE AnnexB(_)
AnnexB(nals) ==
  IF nals = <<>> THEN <<>> ELSE <<0, 0, 0, 1>> \o Head(nals) \o AnnexB(Tail(nals))

RECURSIVE TotalLen(_)
TotalLen(nals) == IF nals = <<>> THEN 0 ELSE Len(Head(nals)) + TotalLen(Tail(nals))

\* C10: for every input the repacker accepts, the output is, for each
\* length-prefixed NAL in order, 00 00 00 01 followed by its payload: as
\* many start codes as length prefixes, the same payload bytes in total, a
\* bare start code for a zero length, and an empty output for an empty input.
C10_RepackedIsStartCodeFraming ==
  (rp.result.ran /\ rp.result.ok) =>
    /\ rp.result.out = AnnexB(Nals(rp.input))
    /\ Len(rp.result.out) = 4 * Len(Nals(rp.input)) + TotalLen(Nals(rp.input))
    /\ rp.input = <<>> => rp.result.out = <<>>
    /\ rp.input = <<0, 0, 0, 0>> => rp.result.out = <<0, 0, 0, 1>>

\* An accepted unit of two NALs, the first of zero length.
C10_Witness ==
  /\ rp.result.ran /\ rp.result.ok
  /\ rp.input = <<0, 0, 0, 0, 0, 0, 0, 1, 2>>
  /\ rp.result.out = <<0, 0, 0, 1, 0, 0, 0, 1, 2>>

\* What is left of a length-prefixed unit after its last complete NAL: the
\* number of bytes left when they are too few for a length prefix, and -1
\* when a length prefix declares more bytes than follow it.
RECURSIVE Remainder(_)
Remainder(s) ==
  IF Len(s) < 4 THEN Len(s)
  ELSE LET n == s[1] * 16777216 + s[2] * 65536 + s[3] * 256 + s[4]
       IN IF n > Len(s) - 4 THEN -1 ELSE Remainder(SubSeq(s, 5 + n, Len(s)))

\* C11: on an input in which a length prefix declares more bytes than
\* remain after it, the repacker returns false, hands back no output, and
\* has read no input byte at or beyond the input size.
C11_LengthPastEndIsRejected ==
  (rp.result.ran /\ Remainder(rp.input) = -1) =>
    /\ ~rp.result.ok
    /\ rp.result.out = <<>>
    /\ rp.result.hi <= Len(rp.input)

\* The repacker has rejected a unit whose second NAL declares two bytes and
\* supplies one.
C11_Witness ==
  /\ rp.result.ran /\ ~rp.result.ok
  /\ rp.input = <<0, 0, 0, 1, 2, 0, 0, 0, 2, 1>>
  /\ rp.result.hi = 9

\* C12: an input that ends, after its last complete NAL, with 1 to 3
\* trailing bytes is rejected.
C12_TrailingBytesAreRejected ==
  (rp.result.ran /\ Remainder(rp.input) \in 1..3) => ~rp.result.ok

\* The ways a decode of one access unit ends without a frame.
NoFrameOutcomes ==
  {"no_decoder", "vaapi_not_implemented", "no_backend", "convert_failed"}
    \cup (DecodeOutcomes \ {"frame"})

\* C13: a step of vaapi_decoder_decode that ends the decode without a frame
\* returns false and changes neither the latest-frame slot nor the active
\* flag, the session or the subscription: no field of the context, no relay
\* id and no RGBA buffer changes.
C13_FailedDecodeChangesNothing ==
  [][((VideoDecode \/ SoftwareDecode) /\ cb'.pc = "done") =>
       /\ cb'.ret \in NoFrameOutcomes
       /\ UNCHANGED <<context, relay, heap, bufdims>>]_vars

\* A unit with a length prefix past its end has been dropped while a frame
\* is staged and the context is active.
C13_Witness ==
  /\ cb.pc = "done" /\ cb.ret = "convert_failed"
  /\ context.active /\ context.current_frame_data # NULL
  /\ context.subscription_id > 0

\* C14: frame_queue_len and audio_queue_len never exceed the capacities set
\* at create.
C14_QueuesWithinCapacity ==
  /\ context.frame_queue_len <= QueueCap
  /\ context.audio_queue_len <= QueueCap

\* An audio unit has been enqueued on a full queue.
C14_Witness ==
  /\ cb.pc = "done" /\ cb.ret = "queued_dropped_oldest"
  /\ context.audio_queue_len = QueueCap

\* C15: when hang_source_destroy returns, every id the relay held is
\* closed, the decoder and its hardware handles are released, every RGBA
\* buffer is freed, and nothing has been closed, released or freed twice.
C15_DestroyReleasesEverythingOnce ==
  lc.pc = "freed" =>
    /\ relay.sessions = {} /\ relay.subscriptions = {}
    /\ ~decoder.live /\ va = {}
    /\ heap = {}
    /\ faults = {}

\* C16: in every state in which the context exists and is inactive, render
\* is not uploading or drawing, and get_width and get_height return
\* 1920 and 1080.
C16_InactiveRendersNothingReportsDefaults ==
  (~context.active /\ lc.pc # "freed") =>
    /\ rn.pc # "upload"
    /\ hang_source_get_width = 1920
    /\ hang_source_get_height = 1080

SubscriptionClosed == ~(context.subscription_id > 0) /\ relay.subscriptions = {}

SessionClosed == ~(context.session_id > 0) /\ relay.sessions = {}

DecodersDestroyed ==
  context.vaapi_context = NULL /\ ~decoder.live /\ context.audio_context = NULL

\* C17: hang_source_deactivate on an active context takes its steps in
\* order: the subscription is closed only once active is false, the session
\* only once the subscription is closed, the decoders are destroyed only
\* once the session is closed, and the slot and the queues are flushed only
\* once both decoders are destroyed.
C17_DeactivateStepsInOrder ==
  [][/\ DeactCloseSub => ~context.active
     /\ DeactCloseSession => ~context.active /\ SubscriptionClosed
     /\ (DeactDestroyVideo \/ DeactDestroyAudio) =>
          ~context.active /\ SubscriptionClosed /\ SessionClosed
     /\ (DeactFlushFrame \/ DeactFlushAudio) =>
          /\ ~context.active /\ SubscriptionClosed /\ SessionClosed
          /\ DecodersDestroyed]_vars

\* A deactivate called by the host has closed both ids, destroyed the
\* decoders and flushed the staged frame, and is about to flush the audio
\* queue.
C17_Witness ==
  /\ lc.op = "deactivate" /\ lc.pc = "deact_flush_audio"
  /\ ~context.active /\ SubscriptionClosed /\ SessionClosed /\ DecodersDestroyed
  /\ SlotEmpty /\ rn.pc = "lock"

\* C18: a failing hang_source_activate releases in the reverse of the order
\* of acquisition (session, video decoder, audio decoder, subscription): it
\* closes the session only once the subscription is closed and both
\* decoders are destroyed.
C18_CleanupInReverseOrder ==
  [][(ActCleanupSession /\ context.session_id > 0) =>
       SubscriptionClosed /\ DecodersDestroyed]_vars

\* The hardware probe of the live decoder failed and init fell through to
\* the software backend.
ProbeFellThrough == decoder.live /\ decoder.codec_ctx # NULL

\* C19: after a hardware probe that failed at any step, every handle it
\* acquired has been released once and none is recorded in the decoder; a
\* decode on that decoder takes the software path; and no hardware handle is
\* ever released a second time.
C19_FailedProbeLeavesNoHandle ==
  /\ ProbeFellThrough =>
       /\ decoder.va_display = NULL
       /\ decoder.va_config = NULL
       /\ decoder.va_context = NULL
       /\ va = {}
       /\ lc.lost = {}
  /\ (cb.pc = "done" /\ cb.ret = "vaapi_not_implemented") => ~ProbeFellThrough
  /\ faults \cap {"va_display_released_twice", "va_config_released_twice",
                  "va_context_released_twice"} = {}

\* C20: a frame the software decoder has produced was converted by a
\* converter configured for that frame's own width and height, into a
\* buffer written for exactly that width and height.
C20_ConverterMatchesFrame ==
  cb.pc \in {"v_store_lock", "v_store"} =>
    /\ decoder.sws_w = cb.w /\ decoder.sws_h = cb.h
    /\ bufdims[cb.buf] = <<cb.w, cb.h>>

\* C21: no thread holds the frame mutex and the audio mutex at the same
\* time, and no thread takes one of them while it holds the other.
C21_NeverBothMutexes ==
  [][/\ frame_mutex' # "none" /\ audio_mutex' # "none" => frame_mutex' # audio_mutex'
     /\ (frame_mutex' # frame_mutex /\ frame_mutex' # "none") =>
          audio_mutex # frame_mutex'
     /\ (audio_mutex' # audio_mutex /\ audio_mutex' # "none") =>
          frame_mutex # audio_mutex']_vars

\* Deactivate holds the audio mutex for its queue flush while render, which
\* passed its active test earlier, holds the frame mutex.
C21_Witness ==
  /\ lc.pc = "deact_flush_audio" /\ audio_mutex = "lifecycle"
  /\ frame_mutex = "render"

\* The latest-frame slot: buffer, size, width, height.
Slot ==
  <<context.current_frame_data, context.current_frame_size,
    context.current_frame_width, context.current_frame_height>>

\* C22: every step that reads or writes the latest-frame slot, those of
\* get_width, get_height and destroy included, is taken by a thread that
\* holds the frame mutex, and a width and height the host has read belong
\* to one frame (or are the defaults).
C22_SlotAccessUnderFrameMutex ==
  [][/\ Slot' # Slot => frame_mutex \in {"callback", "lifecycle"}
     /\ DesFrame => frame_mutex = "lifecycle"
     /\ (QueryWidth \/ QueryHeight) => frame_mutex = "render"
     /\ rn'.pc = "got_size" =>
          <<rn'.w, rn'.h>> \in VideoSizes \cup {<<DefaultWidth, DefaultHeight>>}]_vars

\* C23: no video or audio callback of a subscription is dropped for
\* finding the context inactive before the matching deactivate has begun: a
\* delivery is dropped only once a deactivate has cleared the flag and is
\* about to close the subscription.
C23_NoCallbackDroppedBeforeActive ==
  [][((VideoDeliver \/ AudioDeliver) /\ cb'.ret = "dropped") =>
       lc.pc = "deact_close_sub"]_vars

\* The ids the context holds, as sets.
HeldSessions == IF context.session_id > 0 THEN {context.session_id} ELSE {}

HeldSubscriptions ==
  IF context.subscription_id > 0 THEN {context.subscription_id} ELSE {}

\* C24: at most one session and one subscription are open at a time, every
\* open id is the one the context holds (so each is closed before the next
\* connect or subscribe), none is closed twice, none is open once destroy
\* has returned, and the context is active only while it holds a positive
\* session id and a positive subscription id, both open.
C24_OneSessionOneSubscription ==
  /\ Cardinality(relay.sessions) <= 1
  /\ Cardinality(relay.subscriptions) <= 1
  /\ relay.sessions \subseteq HeldSessions
  /\ relay.subscriptions \subseteq HeldSubscriptions
  /\ faults \cap {"session_closed_twice", "subscription_closed_twice"} = {}
  /\ lc.pc = "freed" => relay.sessions = {} /\ relay.subscriptions = {}
  /\ context.active =>
       /\ relay.sessions = HeldSessions /\ HeldSessions # {}
       /\ relay.subscriptions = HeldSubscriptions /\ HeldSubscriptions # {}

\* An activate that follows a completed deactivate has connected and
\* subscribed again, with one id of each kind open.
C24_Witness ==
  /\ lc.op = "activate" /\ lc.pc = "act_set_active"
  /\ lc.ret = "deactivate:flushed"
  /\ Cardinality(relay.sessions) = 1 /\ Cardinality(relay.subscriptions) = 1

\* C25: on every exit of software_decode_frame taken after the repacker
\* succeeded, the repacked buffer of the access unit has been freed.
C25_ConvertedBufferFreedOnce ==
  (cb.pc = "done" /\ cb.ret \in DecodeOutcomes \cup {"staged"}) => cb.conv = "freed"

====
